---------------------------- MODULE Spec2Model ----------------------------
(***************************************************************************)
(* ExecutionPayload of beacon-kit: its SSZ codec (DefineSSZ run by the     *)
(* karalabe/ssz encoder, decoder and hasher), the hand-unrolled fastssz    *)
(* hasher (HashTreeRootWith), post-decode validation and ToHeader.         *)
(*                                                                         *)
(* Bytes are naturals 0..255, byte strings are sequences of bytes.  The    *)
(* 64-byte compression function is modelled as an injective constructor:   *)
(* two roots are equal exactly when the trees they commit to are equal.    *)
(***************************************************************************)
EXTENDS Integers, Sequences, FiniteSets, TLC

(***************************************************************************)
(* Program constants                                                       *)
(***************************************************************************)
ExecutionPayloadStaticSize == 528

ExtraDataSize == 32

MaxWithdrawalsPerPayload == 16

MaxTxsPerPayload == 1048576

MaxBytesPerTx == 1073741824

WithdrawalSize == 44

BytesPerLengthOffset == 4

\* Fork versions, in their total order.
Phase0 == 0

Altair == 1

Bellatrix == 2

Capella == 3

Deneb == 4

Deneb1 == 5

Electra == 6

Electra1 == 7

(***************************************************************************)
(* Bounds of the model                                                     *)
(***************************************************************************)
\* Versions 0..MaxVersion: the eight named forks and later, unnamed ones.
MaxVersion == 8

\* Fixed fields are filled from patterns 0..MaxPattern.
MaxPattern == 1

\* ExtraData lengths reach ExtraDataSize + ExtraOver.
ExtraOver == 1

\* Withdrawals counts reach MaxWithdrawalsPerPayload + WithdrawalsOver.
WithdrawalsOver == 1

\* Transactions lists hold up to MaxTxs transactions.
MaxTxs == 2

\* Two required JSON keys are missing together at most this far apart.
MaxGap == 1

\* The timestamps given to the attributes factory are 0..MaxTimestamp.
MaxTimestamp == 3

\* The devnet has up to this many nodes of each kind.
MaxNodes == 2

(***************************************************************************)
(* Bytes                                                                   *)
(***************************************************************************)
Fill(n, b) == [i \in 1..n |-> b]

Zeros(n) == Fill(n, 0)

\* binary.LittleEndian.PutUint{32,64} and uint256's little-endian bytes: v in
\* n bytes, least significant first.  The numbers of the model are below
\* 2^31, so that the bytes past the fourth are zero.
LE(v, n) ==
  SubSeq(<<v % 256, (v \div 256) % 256, (v \div 65536) % 256,
           (v \div 16777216) % 256>> \o Zeros(n), 1, n)

\* binary.LittleEndian.Uint{32,64}, on bytes whose value is below 2^31.
FromLE(bs) == bs[1] + 256 * bs[2] + 65536 * bs[3] + 16777216 * bs[4]

\* The lists are folded by halves.
RECURSIVE SumLen(_)
SumLen(blobs) ==
  IF blobs = <<>> THEN 0
  ELSE IF Len(blobs) = 1 THEN Len(blobs[1])
  ELSE LET half == Len(blobs) \div 2
       IN SumLen(SubSeq(blobs, 1, half))
            + SumLen(SubSeq(blobs, half + 1, Len(blobs)))

RECURSIVE Concat(_)
Concat(blobs) ==
  IF blobs = <<>> THEN <<>>
  ELSE IF Len(blobs) = 1 THEN blobs[1]
  ELSE LET half == Len(blobs) \div 2
       IN Concat(SubSeq(blobs, 1, half))
            \o Concat(SubSeq(blobs, half + 1, Len(blobs)))

Min(a, b) == IF a < b THEN a ELSE b

(***************************************************************************)
(* The record                                                              *)
(***************************************************************************)
\* A slice that may be nil: Withdrawals []*Withdrawal.
NilList == [isNil |-> TRUE, items |-> <<>>]

List(s) == [isNil |-> FALSE, items |-> s]

\* A pointer that may be nil: BaseFeePerGas *math.U256.
NilU256 == [isNil |-> TRUE, val |-> 0]

U256(v) == [isNil |-> FALSE, val |-> v]

\* version.EqualsOrIsAfter(a, b)
EqualsOrIsAfter(a, b) == a >= b

\* The sizes of the fixed byte arrays, by field type.
FieldSize ==
  [ParentHash |-> 32, FeeRecipient |-> 20, StateRoot |-> 32,
   ReceiptsRoot |-> 32, LogsBloom |-> 256, Random |-> 32, BlockHash |-> 32]

\* The constructor with Withdrawals made at every fork version.
NewEmptyExecutionPayloadWithWithdrawals(forkVersion) ==
  [Versionable   |-> forkVersion,
   ParentHash    |-> Zeros(32),
   FeeRecipient  |-> Zeros(20),
   StateRoot     |-> Zeros(32),
   ReceiptsRoot  |-> Zeros(32),
   LogsBloom     |-> Zeros(256),
   Random        |-> Zeros(32),
   Number        |-> 0,
   GasLimit      |-> 0,
   GasUsed       |-> 0,
   Timestamp     |-> 0,
   ExtraData     |-> <<>>,
   BaseFeePerGas |-> U256(0),
   BlockHash     |-> Zeros(32),
   Transactions  |-> <<>>,
   Withdrawals   |-> List(<<>>),
   BlobGasUsed   |-> 0,
   ExcessBlobGas |-> 0]

\* NewEmptyExecutionPayloadWithVersion: zero fields, a zero BaseFeePerGas and,
\* from Capella on, an empty non-nil Withdrawals.
NewEmptyExecutionPayloadWithVersion(forkVersion) ==
  [Versionable   |-> forkVersion,
   ParentHash    |-> Zeros(32),
   FeeRecipient  |-> Zeros(20),
   StateRoot     |-> Zeros(32),
   ReceiptsRoot  |-> Zeros(32),
   LogsBloom     |-> Zeros(256),
   Random        |-> Zeros(32),
   Number        |-> 0,
   GasLimit      |-> 0,
   GasUsed       |-> 0,
   Timestamp     |-> 0,
   ExtraData     |-> <<>>,
   BaseFeePerGas |-> U256(0),
   BlockHash     |-> Zeros(32),
   Transactions  |-> <<>>,
   Withdrawals   |-> IF EqualsOrIsAfter(forkVersion, Capella)
                     THEN List(<<>>) ELSE NilList,
   BlobGasUsed   |-> 0,
   ExcessBlobGas |-> 0]

\* engineprimitives.Withdrawal: Index, Validator, Address, Amount.
Withdrawal(i) ==
  [Index |-> i, Validator |-> i + 1, Address |-> Fill(20, i), Amount |-> 3 * i]

WithdrawalSizeSSZ(w) == WithdrawalSize

EncodeWithdrawal(w) ==
  LE(w.Index, 8) \o LE(w.Validator, 8) \o w.Address \o LE(w.Amount, 8)

DecodeWithdrawal(bs) ==
  [Index     |-> FromLE(SubSeq(bs, 1, 8)),
   Validator |-> FromLE(SubSeq(bs, 9, 16)),
   Address   |-> SubSeq(bs, 17, 36),
   Amount    |-> FromLE(SubSeq(bs, 37, 44))]

(***************************************************************************)
(* SizeSSZ                                                                 *)
(***************************************************************************)
\* ssz.SizeDynamicBytes
SizeDynamicBytes(blob) == Len(blob)

\* ssz.SizeSliceOfDynamicBytes: an offset per item, then the items.
SizeSliceOfDynamicBytes(blobs) == BytesPerLengthOffset * Len(blobs) + SumLen(blobs)

\* ssz.SizeSliceOfStaticObjects: nothing for an empty (or nil) slice.
SizeSliceOfStaticObjects(objects) ==
  IF Len(objects) = 0 THEN 0 ELSE Len(objects) * WithdrawalSizeSSZ(objects[1])

\* A variant that leaves the withdrawals out.
SizeSSZWithoutWithdrawals(p, fixed) ==
  IF fixed THEN ExecutionPayloadStaticSize
  ELSE ExecutionPayloadStaticSize
       + SizeDynamicBytes(p.ExtraData)
       + SizeSliceOfDynamicBytes(p.Transactions)

SizeSSZ(p, fixed) ==
  IF fixed THEN ExecutionPayloadStaticSize
  ELSE ExecutionPayloadStaticSize
       + SizeDynamicBytes(p.ExtraData)
       + SizeSliceOfDynamicBytes(p.Transactions)
       + SizeSliceOfStaticObjects(p.Withdrawals.items)

(***************************************************************************)
(* DefineSSZ: one declaration, run by the encoder, the decoder and the     *)
(* hasher of the codec                                                     *)
(***************************************************************************)
Def(kind, field, maxItems, maxSize) ==
  [kind |-> kind, field |-> field, maxItems |-> maxItems, maxSize |-> maxSize]

\* The static data (fields and dynamic offsets).
DefineSSZStatic ==
  << Def("StaticBytes", "ParentHash", 0, 0),
     Def("StaticBytes", "FeeRecipient", 0, 0),
     Def("StaticBytes", "StateRoot", 0, 0),
     Def("StaticBytes", "ReceiptsRoot", 0, 0),
     Def("StaticBytes", "LogsBloom", 0, 0),
     Def("StaticBytes", "Random", 0, 0),
     Def("Uint64", "Number", 0, 0),
     Def("Uint64", "GasLimit", 0, 0),
     Def("Uint64", "GasUsed", 0, 0),
     Def("Uint64", "Timestamp", 0, 0),
     Def("DynamicBytesOffset", "ExtraData", 0, 32),
     Def("Uint256", "BaseFeePerGas", 0, 0),
     Def("StaticBytes", "BlockHash", 0, 0),
     Def("SliceOfDynamicBytesOffset", "Transactions",
         MaxTxsPerPayload, MaxBytesPerTx),
     Def("SliceOfStaticObjectsOffset", "Withdrawals", 16, 0),
     Def("Uint64", "BlobGasUsed", 0, 0),
     Def("Uint64", "ExcessBlobGas", 0, 0) >>

\* DefineSSZDynamic, had the content of Withdrawals been declared before that
\* of Transactions.
DefineSSZDynamicWithdrawalsFirst ==
  << Def("DynamicBytesContent", "ExtraData", 0, 32),
     Def("SliceOfStaticObjectsContent", "Withdrawals", 16, 0),
     Def("SliceOfDynamicBytesContent", "Transactions",
         MaxTxsPerPayload, MaxBytesPerTx) >>

\* The dynamic data (fields).
DefineSSZDynamic ==
  << Def("DynamicBytesContent", "ExtraData", 0, 32),
     Def("SliceOfDynamicBytesContent", "Transactions",
         MaxTxsPerPayload, MaxBytesPerTx),
     Def("SliceOfStaticObjectsContent", "Withdrawals", 16, 0) >>

OffsetKinds ==
  {"DynamicBytesOffset", "SliceOfDynamicBytesOffset", "SliceOfStaticObjectsOffset"}

\* The Go value behind a declared field: a nil slice is an empty one to
\* len() and range.
FieldValue(p, field) ==
  IF field = "Withdrawals" THEN p.Withdrawals.items ELSE p[field]

(***************************************************************************)
(* The encoder                                                             *)
(***************************************************************************)
NoErr == "nil"

\* The encoded size of a dynamic field's content, by which the encoder
\* advances its offset.
ContentSize(p, e) ==
  CASE e.kind = "DynamicBytesOffset" -> Len(FieldValue(p, e.field))
    [] e.kind = "SliceOfDynamicBytesOffset" ->
         SizeSliceOfDynamicBytes(FieldValue(p, e.field))
    [] e.kind = "SliceOfStaticObjectsOffset" ->
         SizeSliceOfStaticObjects(FieldValue(p, e.field))
    [] OTHER -> 0

\* The item offsets of a list of byte strings, the first one past the offsets.
ItemOffsets(blobs, offset) ==
  Concat([i \in 1..Len(blobs) |->
            LE(offset + SumLen(SubSeq(blobs, 1, i - 1)), BytesPerLengthOffset)])

EncodeObjects(objects) ==
  Concat([i \in 1..Len(objects) |-> EncodeWithdrawal(objects[i])])

\* What one declaration writes.  ssz.EncodeStaticBytes, EncodeUint64,
\* EncodeUint256 (a nil pointer encodes as zero), Encode*Offset (the running
\* offset, 4 bytes little-endian), EncodeDynamicBytesContent,
\* EncodeSliceOfDynamicBytesContent, EncodeSliceOfStaticObjectsContent.  No
\* encoder takes the declared maximum.
EncodeField(p, e, offset) ==
  LET v == FieldValue(p, e.field)
  IN CASE e.kind = "StaticBytes" -> v
       [] e.kind = "Uint64" -> LE(v, 8)
       [] e.kind = "Uint256" -> IF v.isNil THEN Zeros(32) ELSE LE(v.val, 32)
       [] e.kind \in OffsetKinds -> LE(offset, BytesPerLengthOffset)
       [] e.kind = "DynamicBytesContent" -> v
       [] e.kind = "SliceOfDynamicBytesContent" ->
            ItemOffsets(v, BytesPerLengthOffset * Len(v)) \o Concat(v)
       [] OTHER -> EncodeObjects(v)

\* The encoder (out, the bytes written; offset, the running offset of the
\* dynamic fields; err, never set when encoding into a buffer) after one
\* declaration.
EncodeStep(p, enc, e) ==
  [out    |-> enc.out \o EncodeField(p, e, enc.offset),
   offset |-> enc.offset + ContentSize(p, e),
   err    |-> enc.err]

\* The declarations defs[lo..hi], in order.
RECURSIVE EncodePass(_, _, _, _, _)
EncodePass(p, enc, defs, lo, hi) ==
  IF enc.err # NoErr \/ lo > hi THEN enc
  ELSE IF lo = hi THEN EncodeStep(p, enc, defs[lo])
  ELSE LET mid == (lo + hi) \div 2
       IN EncodePass(p, EncodePass(p, enc, defs, lo, mid), defs, mid + 1, hi)

\* DefineSSZ under the encoder: the dynamic offsets start at the static size.
EncodeSSZ(p) ==
  LET enc == [out |-> <<>>, offset |-> SizeSSZ(p, TRUE), err |-> NoErr]
      static == EncodePass(p, enc, DefineSSZStatic, 1, Len(DefineSSZStatic))
  IN EncodePass(p, static, DefineSSZDynamic, 1, Len(DefineSSZDynamic)).out

\* ssz.EncodeToBytes(buf, obj): refuses a buffer smaller than ssz.Size(obj),
\* otherwise fills buf from its start.
EncodeToBytes(buf, p) ==
  IF SizeSSZ(p, FALSE) > Len(buf)
  THEN [buf |-> buf, err |-> "ErrBufferTooSmall"]
  ELSE LET data == EncodeSSZ(p)
       IN IF Len(data) > Len(buf)
          THEN [buf |-> buf, err |-> "panic: slice bounds out of range"]
          ELSE [buf |-> data \o SubSeq(buf, Len(data) + 1, Len(buf)),
                err |-> NoErr]

\* buf := make([]byte, ssz.Size(p)); return buf, ssz.EncodeToBytes(buf, p)
MarshalSSZ(p) == EncodeToBytes(Zeros(SizeSSZ(p, FALSE)), p)

\* MarshalSSZTo, had the bytes been written over dst from its start.
MarshalSSZToOverwriting(p, dst) ==
  LET Written(bz) ==
        IF bz.err # NoErr THEN [buf |-> <<>>, isNil |-> TRUE, err |-> bz.err]
        ELSE [buf |-> bz.buf, isNil |-> FALSE, err |-> NoErr]
  IN Written(MarshalSSZ(p))

\* MarshalSSZTo(dst): the bytes of MarshalSSZ appended to dst; a nil slice
\* and the error when MarshalSSZ returns one.
MarshalSSZTo(p, dst) ==
  LET Appended(bz) ==
        IF bz.err # NoErr THEN [buf |-> <<>>, isNil |-> TRUE, err |-> bz.err]
        ELSE [buf |-> dst \o bz.buf, isNil |-> FALSE, err |-> NoErr]
  IN Appended(MarshalSSZ(p))

(***************************************************************************)
(* The decoder                                                             *)
(*                                                                         *)
(* A decoder state: in, the bytes not yet consumed (the buffer is read     *)
(* front to back, never by seeking to an offset); length, the size of the  *)
(* slot being decoded; offset, the last offset seen (or the one expected   *)
(* first); offsets, those seen in this slot; err, the first error; rec,    *)
(* the record being filled.                                                *)
(***************************************************************************)
Take(bs, n) == SubSeq(bs, 1, n)

Drop(bs, n) == SubSeq(bs, n + 1, Len(bs))

Fail(d, e) == [d EXCEPT !.err = e]

\* A variant that lets an offset go back.
DecodeOffsetNoProgression(d, list) ==
  IF d.err # NoErr THEN d
  ELSE IF Len(d.in) < BytesPerLengthOffset THEN Fail(d, "io.ErrUnexpectedEOF")
  ELSE LET Checked(offset, rest) ==
             IF offset > d.length THEN Fail(rest, "ErrOffsetBeyondCapacity")
             ELSE IF d.offsets = <<>> /\ ~list /\ d.offset # offset
             THEN Fail(rest, "ErrFirstOffsetMismatch")
             ELSE [rest EXCEPT !.offset = offset,
                               !.offsets = Append(d.offsets, offset)]
       IN Checked(FromLE(Take(d.in, BytesPerLengthOffset)),
                  [d EXCEPT !.in = Drop(d.in, BytesPerLengthOffset)])

\* dec.decodeOffset(list): 4 bytes little-endian; within the slot; the first
\* one of an object is the static size, every later one does not go back.
DecodeOffset(d, list) ==
  IF d.err # NoErr THEN d
  ELSE IF Len(d.in) < BytesPerLengthOffset THEN Fail(d, "io.ErrUnexpectedEOF")
  ELSE LET Checked(offset, rest) ==
             IF offset > d.length THEN Fail(rest, "ErrOffsetBeyondCapacity")
             ELSE IF d.offsets = <<>> /\ ~list
             THEN IF d.offset # offset
                  THEN Fail(rest, "ErrFirstOffsetMismatch")
                  ELSE [rest EXCEPT !.offset = offset,
                                    !.offsets = Append(d.offsets, offset)]
             ELSE IF d.offset > offset
             THEN Fail(rest, "ErrBadOffsetProgression")
             ELSE [rest EXCEPT !.offset = offset,
                               !.offsets = Append(d.offsets, offset)]
       IN Checked(FromLE(Take(d.in, BytesPerLengthOffset)),
                  [d EXCEPT !.in = Drop(d.in, BytesPerLengthOffset)])

\* ssz.DecodeStaticBytes, DecodeUint64, DecodeUint256 (allocates a nil
\* pointer), Decode*Offset.
DecodeStatic(d, e) ==
  IF d.err # NoErr THEN d
  ELSE IF e.kind \in OffsetKinds THEN DecodeOffset(d, FALSE)
  ELSE LET n == CASE e.kind = "StaticBytes" -> FieldSize[e.field]
                  [] e.kind = "Uint64" -> 8
                  [] OTHER -> 32
       IN IF Len(d.in) < n THEN Fail(d, "io.ErrUnexpectedEOF")
          ELSE LET raw == Take(d.in, n)
                   v == CASE e.kind = "StaticBytes" -> raw
                          [] e.kind = "Uint64" -> FromLE(raw)
                          [] OTHER -> U256(FromLE(raw))
               IN [d EXCEPT !.in = Drop(d.in, n), !.rec[e.field] = v]

RECURSIVE DecodeStaticPass(_, _, _)
DecodeStaticPass(d, lo, hi) ==
  IF d.err # NoErr \/ lo > hi THEN d
  ELSE IF lo = hi THEN DecodeStatic(d, DefineSSZStatic[lo])
  ELSE LET mid == (lo + hi) \div 2
       IN DecodeStaticPass(DecodeStaticPass(d, lo, mid), mid + 1, hi)

\* dec.retrieveSize: the sizes of the slot's dynamic fields, from consecutive
\* offsets; the last field runs to the end of the slot.  The subtraction is
\* unsigned: below zero it wraps to a number past every limit (the integers
\* of the model end at 2^31 - 1).
Sizes(offsets, length) ==
  [i \in 1..Len(offsets) |->
     ((IF i = Len(offsets) THEN length ELSE offsets[i + 1]) - offsets[i])
       % 2147483647]

\* The items lo..hi of a list of byte strings, read front to back by their
\* sizes.
DecodeItem(d, size, maxSize) ==
  IF size > maxSize THEN Fail(d, "ErrMaxLengthExceeded")
  ELSE IF Len(d.in) < size THEN Fail(d, "io.ErrUnexpectedEOF")
  ELSE [d EXCEPT !.in = Drop(d.in, size),
                 !.rec = Append(d.rec, Take(d.in, size))]

RECURSIVE DecodeItems(_, _, _, _, _)
DecodeItems(d, sizes, lo, hi, maxSize) ==
  IF d.err # NoErr \/ lo > hi THEN d
  ELSE IF lo = hi THEN DecodeItem(d, sizes[lo], maxSize)
  ELSE LET mid == (lo + hi) \div 2
       IN DecodeItems(DecodeItems(d, sizes, lo, mid, maxSize),
                      sizes, mid + 1, hi, maxSize)

\* The n item offsets after the first.
RECURSIVE DecodeItemOffsets(_, _)
DecodeItemOffsets(d, n) ==
  IF d.err # NoErr \/ n = 0 THEN d
  ELSE IF n = 1 THEN DecodeOffset(d, TRUE)
  ELSE DecodeItemOffsets(DecodeItemOffsets(d, n \div 2), n - n \div 2)

\* ssz.DecodeSliceOfDynamicBytesContent over a slot of size bytes: the first
\* offset counts the items.  Returns a decoder state whose rec is the list.
DecodeSliceOfDynamicBytes(in, size, maxItems, maxSize) ==
  LET d0 == [in |-> in, length |-> size, offset |-> 0, offsets |-> <<>>,
             err |-> NoErr, rec |-> <<>>]
      Items(d2) ==
        IF d2.err # NoErr THEN d2
        ELSE DecodeItems(d2, Sizes(d2.offsets, size), 1, Len(d2.offsets),
                         maxSize)
      Counted(d1) ==
        IF d1.err # NoErr THEN d1
        ELSE IF d1.offset = 0 THEN Fail(d1, "ErrZeroCounterOffset")
        ELSE IF d1.offset % 4 # 0 THEN Fail(d1, "ErrBadCounterOffset")
        ELSE IF d1.offset \div 4 > maxItems
        THEN Fail(d1, "ErrMaxItemsExceeded")
        ELSE Items(DecodeItemOffsets(d1, d1.offset \div 4 - 1))
  IN Counted(DecodeOffset(d0, TRUE))

DecodeObjects(bs, n) ==
  <<>> \o [i \in 1..n |->
             DecodeWithdrawal(SubSeq(bs, WithdrawalSize * (i - 1) + 1,
                                     WithdrawalSize * i))]

\* ssz.DecodeDynamicBytesContent, DecodeSliceOfDynamicBytesContent,
\* DecodeSliceOfStaticObjectsContent: each checks the declared maximum.  An
\* empty content truncates the target slice and leaves a nil slice nil.
DecodeDynamic(d, e, size) ==
  IF d.err # NoErr THEN d
  ELSE CASE e.kind = "DynamicBytesContent" ->
         IF size > e.maxSize THEN Fail(d, "ErrMaxLengthExceeded")
         ELSE IF Len(d.in) < size THEN Fail(d, "io.ErrUnexpectedEOF")
         ELSE [d EXCEPT !.in = Drop(d.in, size),
                        !.rec[e.field] = Take(d.in, size)]
    [] e.kind = "SliceOfDynamicBytesContent" ->
         IF size = 0 THEN [d EXCEPT !.rec[e.field] = <<>>]
         ELSE LET Slice(s) ==
                    IF s.err # NoErr THEN [d EXCEPT !.in = s.in, !.err = s.err]
                    ELSE [d EXCEPT !.in = s.in, !.rec[e.field] = s.rec]
              IN Slice(DecodeSliceOfDynamicBytes(d.in, size, e.maxItems,
                                                 e.maxSize))
    [] OTHER ->
         IF size = 0
         THEN [d EXCEPT !.rec[e.field] =
                 IF d.rec[e.field].isNil THEN NilList ELSE List(<<>>)]
         ELSE IF size % WithdrawalSize # 0
         THEN Fail(d, "ErrDynamicStaticsIndivisible")
         ELSE IF size \div WithdrawalSize > e.maxItems
         THEN Fail(d, "ErrMaxItemsExceeded")
         ELSE IF Len(d.in) < size THEN Fail(d, "io.ErrUnexpectedEOF")
         ELSE [d EXCEPT !.in = Drop(d.in, size),
                        !.rec[e.field] =
                          List(DecodeObjects(d.in, size \div WithdrawalSize))]

RECURSIVE DecodeDynamicPass(_, _, _, _)
DecodeDynamicPass(d, sizes, lo, hi) ==
  IF d.err # NoErr \/ lo > hi THEN d
  ELSE IF lo = hi THEN DecodeDynamic(d, DefineSSZDynamic[lo], sizes[lo])
  ELSE LET mid == (lo + hi) \div 2
       IN DecodeDynamicPass(DecodeDynamicPass(d, sizes, lo, mid),
                            sizes, mid + 1, hi)

\* ssz.DecodeFromBytes(blob, obj): DefineSSZ under the decoder, into obj.  The
\* slot is the whole buffer and the first offset expected is the static size;
\* on leaving the slot the bytes consumed must be the slot's length.
DecodeFromBytes(blob, obj) ==
  LET d0 == [in |-> blob, length |-> Len(blob), offset |-> SizeSSZ(obj, TRUE),
             offsets |-> <<>>, err |-> NoErr, rec |-> obj]
      Dynamic(d1) ==
        IF d1.err # NoErr THEN d1
        ELSE DecodeDynamicPass(d1, Sizes(d1.offsets, d1.length), 1,
                               Len(DefineSSZDynamic))
      Leave(d2) ==
        IF d2.err = NoErr /\ Len(d2.in) # 0
        THEN Fail(d2, "ErrObjectSlotSizeMismatch")
        ELSE d2
  IN IF Len(blob) = 0 THEN Fail(d0, "io.ErrUnexpectedEOF")
     ELSE Leave(Dynamic(DecodeStaticPass(d0, 1, Len(DefineSSZStatic))))

(***************************************************************************)
(* Post-decode validation                                                  *)
(***************************************************************************)
\* A variant that does not look at the fork version.
ValidateAfterDecodingSSZAnyVersion(p) ==
  [rec |-> IF p.Withdrawals.isNil THEN [p EXCEPT !.Withdrawals = List(<<>>)]
           ELSE p,
   err |-> NoErr]

\* For any fork version Capella onwards, non-nil withdrawals are required.
ValidateAfterDecodingSSZ(p) ==
  [rec |-> IF p.Withdrawals.isNil /\ EqualsOrIsAfter(p.Versionable, Capella)
           THEN [p EXCEPT !.Withdrawals = List(<<>>)]
           ELSE p,
   err |-> NoErr]

\* Decoding a buffer at a fork version: a fresh record of that version, the
\* decoder, then ValidateAfterDecodingSSZ.
UnmarshalSSZ(blob, forkVersion) ==
  LET Validated(d) ==
        IF d.err # NoErr THEN [rec |-> d.rec, err |-> d.err, in |-> d.in]
        ELSE [rec |-> ValidateAfterDecodingSSZ(d.rec).rec,
              err |-> ValidateAfterDecodingSSZ(d.rec).err,
              in |-> d.in]
  IN Validated(DecodeFromBytes(
                 blob, NewEmptyExecutionPayloadWithVersion(forkVersion)))

(***************************************************************************)
(* Merkle trees.  A node is <<"c", 32 bytes>> (a chunk), <<"z", d>> (the   *)
(* root of the all-zero tree of depth d, the hashers' zero-hash table) or  *)
(* <<"h", left, right>> (the hash of two nodes).                           *)
(***************************************************************************)
ZeroHash(d) == <<"z", d>>

\* A chunk: up to 32 bytes, zero-padded on the right.
Chunk(bs) ==
  LET padded == bs \o Zeros(32 - Len(bs))
  IN IF padded = Zeros(32) THEN ZeroHash(0) ELSE <<"c", padded>>

\* The compression function on two nodes.
Hash(l, r) ==
  IF l[1] = "z" /\ r[1] = "z" /\ l[2] = r[2] THEN ZeroHash(l[2] + 1)
  ELSE <<"h", l, r>>

\* The chunks of a byte string, the last one padded.
Chunks(bs) ==
  <<>> \o [i \in 1..((Len(bs) + 31) \div 32) |->
             Chunk(SubSeq(bs, 32 * (i - 1) + 1, Min(32 * i, Len(bs))))]

Pow2(d) == 2 ^ d

\* The depth of a tree over n leaves: the least d with 2^d >= n.
Depth(n) ==
  IF n <= 1 THEN 0
  ELSE CHOOSE d \in 1..30 : Pow2(d) >= n /\ Pow2(d - 1) < n

\* A length or count as a chunk: uint64 little-endian, zero-padded.
LengthChunk(n) == Chunk(LE(n, 8))

(***************************************************************************)
(* The hasher of the codec (ssz.HashConcurrent over DefineSSZ)             *)
(***************************************************************************)
\* The root of a layer: its chunks as the leaves of a tree of the given
\* depth, the leaves past the last chunk zero.
RECURSIVE MerkleRoot(_, _)
MerkleRoot(chunks, depth) ==
  IF chunks = <<>> THEN ZeroHash(depth)
  ELSE IF depth = 0 THEN chunks[1]
  ELSE LET half == Pow2(depth - 1)
       IN Hash(MerkleRoot(Take(chunks, Min(half, Len(chunks))), depth - 1),
               MerkleRoot(Drop(chunks, half), depth - 1))

\* The root of a tree of depth d as the left-most node of a tree of the given
\* depth, everything to its right zero (the levels are climbed by halves).
RECURSIVE Extend(_, _, _)
Extend(node, d, depth) ==
  IF node = <<>> \/ d >= depth THEN node
  ELSE IF depth = d + 1 THEN Hash(node, ZeroHash(d))
  ELSE LET mid == (d + depth) \div 2
       IN Extend(Extend(node, d, mid), mid, depth)

\* h.ascendLayer(capacity): the layer's root, padded up to the capacity
\* (capacity 0: up to the chunks collected).
AscendLayer(chunks, capacity) ==
  LET need == Depth(Len(chunks))
      have == Depth(capacity)
  IN Extend(MerkleRoot(chunks, need), need, IF have > need THEN have ELSE need)

\* h.ascendMixinLayer(size, capacity)
AscendMixinLayer(chunks, size, capacity) ==
  Hash(AscendLayer(chunks, capacity), LengthChunk(size))

\* h.hashBytes: a blob of up to 32 bytes is one chunk, a longer one its own
\* tree.
HashStaticBytes(blob) ==
  IF Len(blob) <= 32 THEN Chunk(blob) ELSE AscendLayer(Chunks(blob), 0)

HashUint64(n) == Chunk(LE(n, 8))

\* A nil pointer hashes as zero.
HashUint256(n) == IF n.isNil THEN Chunk(<<>>) ELSE Chunk(LE(n.val, 32))

\* HashDynamicBytes, had the length not been mixed in.
HashDynamicBytesWithoutMixin(blob, maxSize) ==
  AscendLayer(Chunks(blob), (maxSize + 31) \div 32)

HashDynamicBytes(blob, maxSize) ==
  AscendMixinLayer(Chunks(blob), Len(blob), (maxSize + 31) \div 32)

HashEachDynamicBytes(blobs, maxSize) ==
  <<>> \o [i \in 1..Len(blobs) |-> HashDynamicBytes(blobs[i], maxSize)]

HashSliceOfDynamicBytes(blobs, maxItems, maxSize) ==
  AscendMixinLayer(HashEachDynamicBytes(blobs, maxSize), Len(blobs), maxItems)

\* Withdrawal.DefineSSZ under the hasher.
HashWithdrawal(w) ==
  AscendLayer(<< HashUint64(w.Index), HashUint64(w.Validator),
                 HashStaticBytes(w.Address), HashUint64(w.Amount) >>, 0)

HashEachObject(objects) ==
  <<>> \o [i \in 1..Len(objects) |-> HashWithdrawal(objects[i])]

HashSliceOfStaticObjects(objects, maxItems) ==
  AscendMixinLayer(HashEachObject(objects), Len(objects), maxItems)

\* A declaration of the static pass under the hasher: one leaf.
HashField(p, e) ==
  LET v == FieldValue(p, e.field)
  IN CASE e.kind = "StaticBytes" -> HashStaticBytes(v)
       [] e.kind = "Uint64" -> HashUint64(v)
       [] e.kind = "Uint256" -> HashUint256(v)
       [] e.kind = "DynamicBytesOffset" -> HashDynamicBytes(v, e.maxSize)
       [] e.kind = "SliceOfDynamicBytesOffset" ->
            HashSliceOfDynamicBytes(v, e.maxItems, e.maxSize)
       [] OTHER -> HashSliceOfStaticObjects(v, e.maxItems)

\* The leaves of the record: the declarations of the static pass, in order
\* (the content declarations of the dynamic pass hash nothing).
HashLeaves(p) ==
  <<>> \o [i \in 1..Len(DefineSSZStatic) |-> HashField(p, DefineSSZStatic[i])]

\* ssz.HashConcurrent(p)
HashTreeRoot(p) == AscendLayer(HashLeaves(p), 0)

\* engineprimitives.Transactions.HashTreeRoot and Withdrawals.HashTreeRoot:
\* the lists on their own, with the limits of the payload's declaration.
TransactionsHashTreeRoot(txs) ==
  HashSliceOfDynamicBytes(txs, MaxTxsPerPayload, MaxBytesPerTx)

WithdrawalsHashTreeRoot(ws) ==
  HashSliceOfStaticObjects(ws, MaxWithdrawalsPerPayload)

(***************************************************************************)
(* The fastssz hasher: a flat buffer, here a sequence of nodes; bytes that *)
(* do not yet fill a chunk are <<"raw", bytes>> at its end.  Index() is    *)
(* the number of nodes in the buffer.                                      *)
(***************************************************************************)
\* hh.Append(b), on a buffer that ends on a chunk boundary: the bytes as they
\* are, not padded.
HasherAppend(hh, b) ==
  LET full == Len(b) \div 32
  IN hh \o [i \in 1..full |-> Chunk(SubSeq(b, 32 * (i - 1) + 1, 32 * i))]
        \o (IF Len(b) % 32 = 0 THEN <<>>
            ELSE << <<"raw", SubSeq(b, 32 * full + 1, Len(b))>> >>)

\* hh.FillUpTo32()
FillUpTo32(hh) ==
  IF hh # <<>> /\ hh[Len(hh)][1] = "raw"
  THEN [hh EXCEPT ![Len(hh)] = Chunk(hh[Len(hh)][2])]
  ELSE hh

\* hh.AppendBytes32(b)
AppendBytes32(hh, b) == FillUpTo32(HasherAppend(hh, b))

\* getDepth(d): log2 of the next power of two.
GetDepth(d) == IF d <= 1 THEN 0 ELSE Depth(d)

\* One round of the loop over the layers: an odd layer gets the zero hash of
\* its level, then pairs are hashed.
HashLayer(layer, i) ==
  LET even == IF Len(layer) % 2 = 1 THEN Append(layer, ZeroHash(i)) ELSE layer
  IN <<>> \o [k \in 1..(Len(even) \div 2) |-> Hash(even[2 * k - 1], even[2 * k])]

\* The rounds i..depth-1 (by halves).
RECURSIVE HashLayers(_, _, _)
HashLayers(layer, i, depth) ==
  IF layer = <<>> \/ i >= depth THEN layer
  ELSE IF depth = i + 1 THEN HashLayer(layer, i)
  ELSE LET mid == (i + depth) \div 2
       IN HashLayers(HashLayers(layer, i, mid), mid, depth)

\* h.merkleizeImpl(input, limit): the root of the input chunks under a tree
\* of limit leaves (limit 0: as many as there are chunks).
MerkleizeImpl(input, limit) ==
  LET count == Len(input)
      lim == IF limit = 0 THEN count ELSE limit
  IN IF count > lim THEN <<"panic", "BUG: count higher than limit">>
     ELSE IF lim = 0 THEN ZeroHash(0)
     ELSE IF lim = 1 THEN (IF count = 1 THEN input[1] ELSE ZeroHash(0))
     ELSE IF count = 0 THEN ZeroHash(GetDepth(lim))
     ELSE HashLayers(input, 0, GetDepth(lim))[1]

\* hh.Merkleize(indx)
Merkleize(hh, indx) ==
  Append(Take(hh, indx), MerkleizeImpl(Drop(hh, indx), 0))

\* hh.MerkleizeWithMixin(indx, num, limit)
MerkleizeWithMixin(hh, indx, num, limit) ==
  LET filled == FillUpTo32(hh)
  IN Append(Take(filled, indx),
            Hash(MerkleizeImpl(Drop(filled, indx), limit), LengthChunk(num)))

\* hh.PutBytes(b)
PutBytes(hh, b) ==
  IF Len(b) <= 32 THEN AppendBytes32(hh, b)
  ELSE Merkleize(AppendBytes32(hh, b), Len(hh))

\* hh.PutUint64(i)
PutUint64(hh, i) == AppendBytes32(hh, LE(i, 8))

\* A hasher call sequence is threaded as [hh, err]: the buffer as it is left
\* and the error returned.
Ok(hh) == [hh |-> hh, err |-> NoErr]

\* One field of Withdrawal.HashTreeRootWith.
WithdrawalField(w, st, i) ==
  CASE i = 1 -> Ok(PutUint64(st.hh, w.Index))
    [] i = 2 -> Ok(PutUint64(st.hh, w.Validator))
    [] i = 3 -> Ok(PutBytes(st.hh, w.Address))
    [] OTHER -> Ok(PutUint64(st.hh, w.Amount))

RECURSIVE WithdrawalFields(_, _, _, _)
WithdrawalFields(w, st, lo, hi) ==
  IF st.err # NoErr \/ lo > hi THEN st
  ELSE IF lo = hi THEN WithdrawalField(w, st, lo)
  ELSE LET mid == (lo + hi) \div 2
       IN WithdrawalFields(w, WithdrawalFields(w, st, lo, mid), mid + 1, hi)

\* Withdrawal.HashTreeRootWith(hh)
WithdrawalHashTreeRootWith(hh, w) ==
  Ok(Merkleize(WithdrawalFields(w, Ok(hh), 1, 4).hh, Len(hh)))

\* The loop over p.Withdrawals: stops at the first error.
RECURSIVE PutWithdrawals(_, _)
PutWithdrawals(st, ws) ==
  IF st.err # NoErr \/ ws = <<>> THEN st
  ELSE IF Len(ws) = 1 THEN WithdrawalHashTreeRootWith(st.hh, ws[1])
  ELSE LET half == Len(ws) \div 2
       IN PutWithdrawals(PutWithdrawals(st, SubSeq(ws, 1, half)),
                         SubSeq(ws, half + 1, Len(ws)))

\* A variant that mixes in a transaction's chunks, not its bytes.
PutTransactionChunkCount(st, tx) ==
  IF Len(tx) > 1073741824 THEN [st EXCEPT !.err = "ErrIncorrectListSize"]
  ELSE Ok(MerkleizeWithMixin(AppendBytes32(st.hh, tx), Len(st.hh),
                             (Len(tx) + 31) \div 32,
                             (1073741824 + 31) \div 32))

\* The loop over p.Transactions: each transaction appended and merkleized
\* with its byte length mixed in; stops at the first one over the limit.
PutTransaction(st, tx) ==
  IF Len(tx) > 1073741824 THEN [st EXCEPT !.err = "ErrIncorrectListSize"]
  ELSE Ok(MerkleizeWithMixin(AppendBytes32(st.hh, tx), Len(st.hh), Len(tx),
                             (1073741824 + 31) \div 32))

RECURSIVE PutTransactions(_, _)
PutTransactions(st, txs) ==
  IF st.err # NoErr \/ txs = <<>> THEN st
  ELSE IF Len(txs) = 1 THEN PutTransaction(st, txs[1])
  ELSE LET half == Len(txs) \div 2
       IN PutTransactions(PutTransactions(st, SubSeq(txs, 1, half)),
                          SubSeq(txs, half + 1, Len(txs)))

\* Field (i - 1) of HashTreeRootWith.
HashFieldWith(p, st, i) ==
  CASE i = 1 -> Ok(PutBytes(st.hh, p.ParentHash))
    [] i = 2 -> Ok(PutBytes(st.hh, p.FeeRecipient))
    [] i = 3 -> Ok(PutBytes(st.hh, p.StateRoot))
    [] i = 4 -> Ok(PutBytes(st.hh, p.ReceiptsRoot))
    [] i = 5 -> Ok(PutBytes(st.hh, p.LogsBloom))
    [] i = 6 -> Ok(PutBytes(st.hh, p.Random))
    [] i = 7 -> Ok(PutUint64(st.hh, p.Number))
    [] i = 8 -> Ok(PutUint64(st.hh, p.GasLimit))
    [] i = 9 -> Ok(PutUint64(st.hh, p.GasUsed))
    [] i = 10 -> Ok(PutUint64(st.hh, p.Timestamp))
    [] i = 11 ->
         IF Len(p.ExtraData) > 32 THEN [st EXCEPT !.err = "ErrIncorrectListSize"]
         ELSE Ok(MerkleizeWithMixin(HasherAppend(st.hh, p.ExtraData), Len(st.hh),
                                    Len(p.ExtraData), (32 + 31) \div 32))
    [] i = 12 ->
         IF p.BaseFeePerGas.isNil
         THEN [st EXCEPT !.err = "panic: nil pointer dereference"]
         ELSE Ok(PutBytes(st.hh, LE(p.BaseFeePerGas.val, 32)))
    [] i = 13 -> Ok(PutBytes(st.hh, p.BlockHash))
    [] i = 14 ->
         IF Len(p.Transactions) > 1048576
         THEN [st EXCEPT !.err = "ErrIncorrectListSize"]
         ELSE LET t == PutTransactions(st, p.Transactions)
              IN IF t.err # NoErr THEN t
                 ELSE Ok(MerkleizeWithMixin(t.hh, Len(st.hh),
                                            Len(p.Transactions), 1048576))
    [] i = 15 ->
         IF Len(p.Withdrawals.items) > 16
         THEN [st EXCEPT !.err = "ErrIncorrectListSize"]
         ELSE LET w == PutWithdrawals(st, p.Withdrawals.items)
              IN IF w.err # NoErr THEN w
                 ELSE Ok(MerkleizeWithMixin(w.hh, Len(st.hh),
                                            Len(p.Withdrawals.items), 16))
    [] i = 16 -> Ok(PutUint64(st.hh, p.BlobGasUsed))
    [] OTHER -> Ok(PutUint64(st.hh, p.ExcessBlobGas))

\* Fields lo - 1 to hi - 1, up to the first error.
RECURSIVE HashFieldsWith(_, _, _, _)
HashFieldsWith(p, st, lo, hi) ==
  IF st.err # NoErr \/ lo > hi THEN st
  ELSE IF lo = hi THEN HashFieldWith(p, st, lo)
  ELSE LET mid == (lo + hi) \div 2
       IN HashFieldsWith(p, HashFieldsWith(p, st, lo, mid), mid + 1, hi)

\* HashTreeRootWith, had an error left the hasher as it was on entry.
HashTreeRootWithRewinding(p, hh) ==
  LET st == HashFieldsWith(p, Ok(hh), 1, 17)
  IN IF st.err # NoErr THEN [hh |-> hh, err |-> st.err]
     ELSE Ok(Merkleize(st.hh, Len(hh)))

\* HashTreeRootWith(hh): the fields, then the Merkleize from the index taken
\* on entry.
HashTreeRootWith(p, hh) ==
  LET st == HashFieldsWith(p, Ok(hh), 1, 17)
  IN IF st.err # NoErr THEN st ELSE Ok(Merkleize(st.hh, Len(hh)))

\* hh.HashRoot(): the buffer's single node.
HashRoot(hh) == hh[Len(hh)]

(***************************************************************************)
(* ToHeader                                                                *)
(***************************************************************************)
NilHeader == [isNil |-> TRUE, val |-> <<>>]

\* The ExecutionPayloadHeader literal of ToHeader.
HeaderOf(p) ==
  [Versionable      |-> p.Versionable,
   ParentHash       |-> p.ParentHash,
   FeeRecipient     |-> p.FeeRecipient,
   StateRoot        |-> p.StateRoot,
   ReceiptsRoot     |-> p.ReceiptsRoot,
   LogsBloom        |-> p.LogsBloom,
   Random           |-> p.Random,
   Number           |-> p.Number,
   GasLimit         |-> p.GasLimit,
   GasUsed          |-> p.GasUsed,
   Timestamp        |-> p.Timestamp,
   ExtraData        |-> p.ExtraData,
   BaseFeePerGas    |-> p.BaseFeePerGas,
   BlockHash        |-> p.BlockHash,
   TransactionsRoot |-> TransactionsHashTreeRoot(p.Transactions),
   WithdrawalsRoot  |-> WithdrawalsHashTreeRoot(p.Withdrawals.items),
   BlobGasUsed      |-> p.BlobGasUsed,
   ExcessBlobGas    |-> p.ExcessBlobGas]

\* A variant that also projects a Capella payload.
ToHeaderSinceCapella(p) ==
  IF p.Versionable \in {Capella, Deneb, Deneb1, Electra, Electra1}
  THEN [hdr |-> [isNil |-> FALSE, val |-> HeaderOf(p)], err |-> NoErr]
  ELSE [hdr |-> NilHeader, err |-> "unknown fork version"]

\* A variant that copies BlobGasUsed into ExcessBlobGas.
ToHeaderBlobGasTwice(p) ==
  IF p.Versionable \in {Deneb, Deneb1, Electra, Electra1}
  THEN [hdr |-> [isNil |-> FALSE,
                 val |-> [HeaderOf(p) EXCEPT !.ExcessBlobGas = p.BlobGasUsed]],
        err |-> NoErr]
  ELSE [hdr |-> NilHeader, err |-> "unknown fork version"]

ToHeader(p) ==
  IF p.Versionable \in {Deneb, Deneb1, Electra, Electra1}
  THEN [hdr |-> [isNil |-> FALSE, val |-> HeaderOf(p)], err |-> NoErr]
  ELSE [hdr |-> NilHeader, err |-> "unknown fork version"]

(***************************************************************************)
(* JSON                                                                    *)
(***************************************************************************)
\* The keys of the JSON object, in the order of the struct tags, and the
\* field each one is read into; the first 14 are required.
JSONKeys ==
  <<"parentHash", "feeRecipient", "stateRoot", "receiptsRoot", "logsBloom",
    "prevRandao", "blockNumber", "gasLimit", "gasUsed", "timestamp",
    "extraData", "baseFeePerGas", "blockHash", "transactions", "withdrawals",
    "blobGasUsed", "excessBlobGas">>

JSONFields ==
  <<"ParentHash", "FeeRecipient", "StateRoot", "ReceiptsRoot", "LogsBloom",
    "Random", "Number", "GasLimit", "GasUsed", "Timestamp", "ExtraData",
    "BaseFeePerGas", "BlockHash", "Transactions", "Withdrawals",
    "BlobGasUsed", "ExcessBlobGas">>

RequiredKeys == 14

\* The error of each required key.
MissingRequiredField ==
  <<"missing required field 'parentHash' for ExecutionPayload",
    "missing required field 'feeRecipient' for ExecutionPayload",
    "missing required field 'stateRoot' for ExecutionPayload",
    "missing required field 'receiptsRoot' for ExecutionPayload",
    "missing required field 'logsBloom' for ExecutionPayload",
    "missing required field 'prevRandao' for ExecutionPayload",
    "missing required field 'blockNumber' for ExecutionPayload",
    "missing required field 'gasLimit' for ExecutionPayload",
    "missing required field 'gasUsed' for ExecutionPayload",
    "missing required field 'timestamp' for ExecutionPayload",
    "missing required field 'extraData' for ExecutionPayload",
    "missing required field 'baseFeePerGas' for ExecutionPayload",
    "missing required field 'blockHash' for ExecutionPayload",
    "missing required field 'transactions' for ExecutionPayload">>

\* A member of a JSON object: the key is not there, is null, or has a value.
Absent == [kind |-> "absent"]

Null == [kind |-> "null"]

Value(v) == [kind |-> "value", val |-> v]

\* MarshalJSON, on a copy of the payload: every key is written; a nil
\* BaseFeePerGas and a nil Withdrawals are written as null.
MarshalJSON(p) ==
  [doc |-> [malformed |-> FALSE,
            members |->
              <<>> \o [i \in 1..Len(JSONKeys) |->
                 CASE JSONFields[i] = "BaseFeePerGas" ->
                        IF p.BaseFeePerGas.isNil THEN Null
                        ELSE Value(p.BaseFeePerGas.val)
                   [] JSONFields[i] = "Withdrawals" ->
                        IF p.Withdrawals.isNil THEN Null
                        ELSE Value(p.Withdrawals.items)
                   [] OTHER -> Value(p[JSONFields[i]])]],
   err |-> NoErr]

\* json.Unmarshal(input, &dec): an error when the input does not parse;
\* otherwise a pointer or slice is nil when its key is absent or null.
JSONUnmarshal(input) ==
  IF input.malformed
  THEN [err |-> "json: invalid input",
        dec |-> <<>> \o [i \in 1..Len(JSONKeys) |-> [isNil |-> TRUE, val |-> <<>>]]]
  ELSE [err |-> NoErr,
        dec |-> <<>> \o [i \in 1..Len(JSONKeys) |->
                  IF input.members[i].kind = "value"
                  THEN [isNil |-> FALSE, val |-> input.members[i].val]
                  ELSE [isNil |-> TRUE, val |-> <<>>]]]

\* RequiredField, had a nil key been passed over like an optional one.
RequiredFieldOptional(st, dec, i) ==
  IF st.err # NoErr \/ dec[i].isNil THEN st
  ELSE [st EXCEPT !.rec[JSONFields[i]] =
          IF JSONFields[i] = "BaseFeePerGas" THEN U256(dec[i].val)
          ELSE dec[i].val]

\* One required key: the error when it is nil, the assignment otherwise.
RequiredField(st, dec, i) ==
  IF st.err # NoErr THEN st
  ELSE IF dec[i].isNil THEN [st EXCEPT !.err = MissingRequiredField[i]]
  ELSE [st EXCEPT !.rec[JSONFields[i]] =
          IF JSONFields[i] = "BaseFeePerGas" THEN U256(dec[i].val)
          ELSE dec[i].val]

RECURSIVE RequiredFields(_, _, _, _)
RequiredFields(st, dec, lo, hi) ==
  IF st.err # NoErr \/ lo > hi THEN st
  ELSE IF lo = hi THEN RequiredField(st, dec, lo)
  ELSE RequiredFields(RequiredFields(st, dec, lo, (lo + hi) \div 2), dec,
                      (lo + hi) \div 2 + 1, hi)

\* OptionalField, had the key been assigned whether it is nil or not.
OptionalFieldAlways(st, dec, i) ==
  IF st.err # NoErr THEN st
  ELSE [st EXCEPT !.rec[JSONFields[i]] =
          IF JSONFields[i] = "Withdrawals"
          THEN (IF dec[i].isNil THEN NilList ELSE List(dec[i].val))
          ELSE IF dec[i].isNil THEN 0 ELSE dec[i].val]

\* One optional key: assigned only when it is not nil.
OptionalField(st, dec, i) ==
  IF st.err # NoErr \/ dec[i].isNil THEN st
  ELSE [st EXCEPT !.rec[JSONFields[i]] =
          IF JSONFields[i] = "Withdrawals" THEN List(dec[i].val)
          ELSE dec[i].val]

\* UnmarshalJSON, had the receiver been written only when no key is missing.
UnmarshalJSONAtomic(p, input) ==
  LET Kept(r) == IF r.err # NoErr THEN [rec |-> p, err |-> r.err] ELSE r
      Assigned(d) ==
        IF d.err # NoErr THEN [rec |-> p, err |-> d.err]
        ELSE Kept(OptionalField(
                    OptionalField(
                      OptionalField(
                        RequiredFields([rec |-> p, err |-> NoErr], d.dec, 1,
                                       RequiredKeys),
                        d.dec, 15),
                      d.dec, 16),
                    d.dec, 17))
  IN Assigned(JSONUnmarshal(input))

\* UnmarshalJSON: the receiver is written key by key, up to the first
\* required key that is missing.
UnmarshalJSON(p, input) ==
  LET Assigned(d) ==
        IF d.err # NoErr THEN [rec |-> p, err |-> d.err]
        ELSE OptionalField(
               OptionalField(
                 OptionalField(
                   RequiredFields([rec |-> p, err |-> NoErr], d.dec, 1,
                                  RequiredKeys),
                   d.dec, 15),
                 d.dec, 16),
               d.dec, 17)
  IN Assigned(JSONUnmarshal(input))

(***************************************************************************)
(* Payload attributes                                                      *)
(***************************************************************************)
\* ChainSpec.ActiveForkVersionForTimestamp: the chain spec is the times at
\* which Deneb1 and Electra become active.
ActiveForkVersionForTimestamp(chainSpec, timestamp) ==
  IF timestamp >= chainSpec.electra THEN Electra
  ELSE IF timestamp >= chainSpec.deneb1 THEN Deneb1
  ELSE Deneb

\* engineprimitives.NewPayloadAttributes: the attributes of its arguments, or
\* nil and an error when it refuses them.
NewPayloadAttributes(forkVersion, timestamp, prevRandao, suggestedFeeRecipient, withdrawals, parentBeaconBlockRoot, refused) ==
  IF refused
  THEN [isNil |-> TRUE, val |-> <<>>, err |-> "NewPayloadAttributes: error"]
  ELSE [isNil |-> FALSE,
        val |-> [Versionable |-> forkVersion,
                 Timestamp |-> timestamp,
                 PrevRandao |-> prevRandao,
                 SuggestedFeeRecipient |-> suggestedFeeRecipient,
                 Withdrawals |-> withdrawals,
                 ParentBeaconBlockRoot |-> parentBeaconBlockRoot],
        err |-> NoErr]

\* BuildPayloadAttributes, had the fork version been that of the genesis.
BuildPayloadAttributesAtGenesis(f, timestamp, payloadWithdrawals, prevRandao, prevHeadRoot, refused) ==
  NewPayloadAttributes(ActiveForkVersionForTimestamp(f.chainSpec, 0),
                       timestamp, prevRandao, f.suggestedFeeRecipient,
                       payloadWithdrawals, prevHeadRoot, refused)

\* Factory.BuildPayloadAttributes; refused is the outcome of
\* NewPayloadAttributes.
BuildPayloadAttributes(f, timestamp, payloadWithdrawals, prevRandao, prevHeadRoot, refused) ==
  NewPayloadAttributes(ActiveForkVersionForTimestamp(f.chainSpec, timestamp),
                       timestamp, prevRandao, f.suggestedFeeRecipient,
                       payloadWithdrawals, prevHeadRoot, refused)

(***************************************************************************)
(* The state machine: a payload p that a caller constructs, populates and  *)
(* calls; out, what the last call returned (with pre, the payload as the   *)
(* call found it); dec, the last decoding of a buffer.                     *)
(***************************************************************************)
VARIABLES p, out, dec, fac, run

vars == <<p, out, dec, fac, run>>

Versions == 0..MaxVersion

\* The values a caller gives the fixed-size fields: all zero for pattern 0,
\* a different byte in every field otherwise.
Populated(q, k) ==
  [q EXCEPT !.ParentHash    = Fill(32, k),
            !.FeeRecipient  = Fill(20, 2 * k),
            !.StateRoot     = Fill(32, 3 * k),
            !.ReceiptsRoot  = Fill(32, 4 * k),
            !.LogsBloom     = Fill(256, 5 * k),
            !.Random        = Fill(32, 6 * k),
            !.Number        = 1000 * k,
            !.GasLimit      = 30000000 * k,
            !.GasUsed       = 21000 * k,
            !.Timestamp     = 1000000000 * k,
            !.BaseFeePerGas = U256(7 * k),
            !.BlockHash     = Fill(32, 8 * k),
            !.BlobGasUsed   = 131072 * k,
            !.ExcessBlobGas = 9 * k]

\* ExtraData of n bytes; its first byte is zero.
ExtraDataOf(n) == [i \in 1..n |-> (i - 1) % 2]

ExtraLens == {0, 1} \cup (ExtraDataSize..(ExtraDataSize + ExtraOver))

\* Transaction i: 33 bytes (two chunks), then none, then 31, ...
TxOf(i) == Fill(IF i % 2 = 1 THEN 34 - i ELSE 0, 10 + i)

TransactionsOf(n) == [i \in 1..n |-> TxOf(i)]

WithdrawalsOf(n) == [i \in 1..n |-> Withdrawal(i)]

WithdrawalCounts ==
  {0, 1} \cup
  (MaxWithdrawalsPerPayload..(MaxWithdrawalsPerPayload + WithdrawalsOver))

Idle(q) ==
  [op |-> "none", pre |-> q, buf |-> <<>>, err |-> NoErr, size |-> 0,
   root |-> ZeroHash(0), hh |-> <<>>, hdr |-> NilHeader, arg |-> <<>>,
   isNil |-> FALSE]

NoDec ==
  [src |-> "none", buf |-> <<>>, rec |-> NewEmptyExecutionPayloadWithVersion(0),
   err |-> NoErr, rest |-> <<>>]

\* No attributes factory has been made, and the devnet plan has not run.
NoFactory == [made |-> FALSE]

NotRun == [pc |-> "none"]

Init ==
  /\ p = NewEmptyExecutionPayloadWithVersion(0)
  /\ out = Idle(p)
  /\ dec = NoDec
  /\ fac = NoFactory
  /\ run = NotRun

\* The caller writes the public fields between calls.
Becomes(q) ==
  /\ out.op = "none"
  /\ p' = q
  /\ out' = Idle(q)
  /\ dec' = NoDec
  /\ UNCHANGED <<fac, run>>

\* A new payload of some fork version takes the place of the one held.
New ==
  \E v \in Versions :
    /\ out.op = "none"
    /\ Becomes(NewEmptyExecutionPayloadWithVersion(v))

SetFixed == \E k \in 0..MaxPattern : Becomes(Populated(p, k))

SetExtraData == \E n \in ExtraLens : Becomes([p EXCEPT !.ExtraData = ExtraDataOf(n)])

SetTransactions ==
  \E n \in 0..MaxTxs : Becomes([p EXCEPT !.Transactions = TransactionsOf(n)])

SetWithdrawals ==
  \/ Becomes([p EXCEPT !.Withdrawals = NilList])
  \/ \E n \in WithdrawalCounts :
       Becomes([p EXCEPT !.Withdrawals = List(WithdrawalsOf(n))])

SetBaseFeePerGasNil == Becomes([p EXCEPT !.BaseFeePerGas = NilU256])

\* The caller takes the result.
Return ==
  /\ out.op # "none"
  /\ out' = Idle(p)
  /\ dec' = NoDec
  /\ UNCHANGED <<p, fac, run>>

Call(o) ==
  /\ out.op = "none"
  /\ out' = o
  /\ dec' = NoDec
  /\ UNCHANGED <<fac, run>>

CallSizeSSZ ==
  /\ \E fixed \in BOOLEAN :
       Call([Idle(p) EXCEPT !.op = IF fixed THEN "SizeSSZ(true)" ELSE "SizeSSZ(false)",
                            !.size = SizeSSZ(p, fixed)])
  /\ UNCHANGED p

CallMarshalSSZ ==
  /\ LET r == MarshalSSZ(p)
     IN Call([Idle(p) EXCEPT !.op = "MarshalSSZ", !.buf = r.buf, !.err = r.err])
  /\ UNCHANGED p

\* On dst, which the caller may have filled already.
Dsts == {<<>>, <<170, 187>>}

CallMarshalSSZTo ==
  /\ \E dst \in Dsts :
       LET Result(r) ==
             [Idle(p) EXCEPT !.op = "MarshalSSZTo", !.arg = dst,
                             !.buf = r.buf, !.isNil = r.isNil, !.err = r.err]
       IN Call(Result(MarshalSSZTo(p, dst)))
  /\ UNCHANGED p

\* The payload whose JSON the inputs are made of.
JSONSource ==
  [Populated(NewEmptyExecutionPayloadWithVersion(Deneb), 1)
     EXCEPT !.ExtraData = ExtraDataOf(1),
            !.Transactions = TransactionsOf(MaxTxs),
            !.Withdrawals = List(WithdrawalsOf(1))]

\* The document with the members at the places in S replaced by m.
With(doc, S, m) ==
  [doc EXCEPT !.members =
     <<>> \o [i \in 1..Len(JSONKeys) |-> IF i \in S THEN m ELSE doc.members[i]]]

\* The inputs of UnmarshalJSON: one that does not parse; the full document
\* with any of the optional keys absent, withdrawals null or empty; one
\* required key absent or null; two required keys missing.
Documents ==
  LET full == MarshalJSON(JSONSource).doc
  IN {[full EXCEPT !.malformed = TRUE]}
       \cup {With(full, S, Absent) : S \in SUBSET {15, 16, 17}}
       \cup {With(full, {15}, Null), With(full, {15}, Value(<<>>))}
       \cup {With(full, {i}, m) : i \in 1..RequiredKeys, m \in {Absent, Null}}
       \cup {With(With(full, {i}, Absent), {i + g}, Null) :
               i \in 1..RequiredKeys, g \in 1..MaxGap}

CallMarshalJSON ==
  /\ LET Result(r) ==
           [Idle(p) EXCEPT !.op = "MarshalJSON", !.arg = r.doc, !.err = r.err]
     IN Call(Result(MarshalJSON(p)))
  /\ UNCHANGED p

CallUnmarshalJSON ==
  \E input \in Documents :
    /\ Call([Idle(p) EXCEPT !.op = "UnmarshalJSON", !.arg = input,
                            !.err = UnmarshalJSON(p, input).err])
    /\ p' = UnmarshalJSON(p, input).rec

CallValidateAfterDecodingSSZ ==
  LET r == ValidateAfterDecodingSSZ(p)
  IN /\ Call([Idle(p) EXCEPT !.op = "ValidateAfterDecodingSSZ", !.err = r.err])
     /\ p' = r.rec

\* CallHashTreeRoot, had the hashing allocated the nil Withdrawals.
CallHashTreeRootAllocating ==
  /\ Call([Idle(p) EXCEPT !.op = "HashTreeRoot", !.root = HashTreeRoot(p)])
  /\ p' = [p EXCEPT !.Withdrawals = List(@.items)]

CallHashTreeRoot ==
  /\ Call([Idle(p) EXCEPT !.op = "HashTreeRoot", !.root = HashTreeRoot(p)])
  /\ UNCHANGED p

\* On a fresh hasher; the root is the hasher's HashRoot when no error came back.
CallHashTreeRootWith ==
  /\ LET r == HashTreeRootWith(p, <<>>)
     IN Call([Idle(p) EXCEPT !.op = "HashTreeRootWith", !.hh = r.hh,
                             !.err = r.err,
                             !.root = IF r.err = NoErr THEN HashRoot(r.hh)
                                      ELSE ZeroHash(0)])
  /\ UNCHANGED p

CallToHeader ==
  /\ LET r == ToHeader(p)
     IN Call([Idle(p) EXCEPT !.op = "ToHeader", !.hdr = r.hdr, !.err = r.err])
  /\ UNCHANGED p

\* A buffer decoded at a fork version: what came out, and rest, the bytes
\* the decoder did not consume.
Decoded(src, buf, forkVersion) ==
  LET Result(r) ==
        [src |-> src, buf |-> buf, rec |-> r.rec, err |-> r.err, rest |-> r.in]
  IN Result(UnmarshalSSZ(buf, forkVersion))

\* The bytes MarshalSSZ returned, decoded at the payload's fork version.
Unmarshal ==
  /\ out.op = "MarshalSSZ" /\ out.err = NoErr /\ dec.src = "none"
  /\ dec' = Decoded("MarshalSSZ", out.buf, p.Versionable)
  /\ UNCHANGED <<p, out, fac, run>>

\* Where the static part holds the offsets of ExtraData, Transactions and
\* Withdrawals (bytes before each).
OffsetPositions == <<436, 504, 508>>

ReadOffset(buf, k) ==
  FromLE(SubSeq(buf, OffsetPositions[k] + 1,
                OffsetPositions[k] + BytesPerLengthOffset))

WithOffset(buf, k, offset) ==
  SubSeq(buf, 1, OffsetPositions[k]) \o LE(offset, BytesPerLengthOffset)
    \o SubSeq(buf, OffsetPositions[k] + BytesPerLengthOffset + 1, Len(buf))

\* Buffers no encoder wrote: an encoding with one offset moved by one or
\* set past the end, cut short, or with a byte added.
CraftedBuffers(buf) ==
  {WithOffset(buf, k, ReadOffset(buf, k) + d) : k \in 1..3, d \in {-1, 1}}
    \cup {WithOffset(buf, k, Len(buf) + 1) : k \in 1..3}
    \cup {SubSeq(buf, 1, ExecutionPayloadStaticSize - 1),
          SubSeq(buf, 1, Len(buf) - 1), buf \o <<0>>}

UnmarshalCrafted ==
  /\ out.op = "MarshalSSZ" /\ out.err = NoErr /\ dec.src = "none"
  /\ \E buf \in CraftedBuffers(out.buf) :
       dec' = Decoded("crafted", buf, p.Versionable)
  /\ UNCHANGED <<p, out, fac, run>>

Next ==
  \/ New
  \/ SetFixed
  \/ SetExtraData
  \/ SetTransactions
  \/ SetWithdrawals
  \/ SetBaseFeePerGasNil
  \/ Return
  \/ CallSizeSSZ
  \/ CallMarshalSSZ
  \/ CallMarshalSSZTo
  \/ CallValidateAfterDecodingSSZ
  \/ CallHashTreeRoot
  \/ CallHashTreeRootWith
  \/ CallToHeader
  \/ Unmarshal
  \/ UnmarshalCrafted

Spec == Init /\ [][Next]_vars

\* The payload as JSON: new payloads, the JSON calls, the validation after
\* decoding and the calls that only read the payload.
NextJSON ==
  \/ New
  \/ Return
  \/ CallUnmarshalJSON
  \/ CallMarshalJSON
  \/ CallValidateAfterDecodingSSZ
  \/ CallSizeSSZ
  \/ CallMarshalSSZ
  \/ CallMarshalSSZTo
  \/ CallHashTreeRoot
  \/ CallHashTreeRootWith

SpecJSON == Init /\ [][NextJSON]_vars

(***************************************************************************)
(* The attributes factory                                                  *)
(***************************************************************************)
\* The chain specs: Deneb1 is active no later than Electra.
ChainSpecs ==
  {c \in [deneb1 : 0..(MaxTimestamp + 1), electra : 0..(MaxTimestamp + 1)] :
     c.deneb1 <= c.electra}

\* NewAttributesFactory(chainSpec, logger, suggestedFeeRecipient)
NewAttributesFactory ==
  \E chainSpec \in ChainSpecs, k \in 0..1 :
    /\ fac' = [made |-> TRUE, chainSpec |-> chainSpec,
               suggestedFeeRecipient |-> Fill(20, 2 * k), call |-> [op |-> "none"]]
    /\ UNCHANGED <<p, out, dec, run>>

\* f.BuildPayloadAttributes(timestamp, payloadWithdrawals, prevRandao,
\* prevHeadRoot): the call is kept with what it returned.
CallBuildPayloadAttributes ==
  \E timestamp \in 0..MaxTimestamp, n \in 0..1, r \in 0..1, h \in 0..1,
     refused \in BOOLEAN :
    /\ fac.made
    /\ fac' = [fac EXCEPT !.call =
                 [op |-> "BuildPayloadAttributes",
                  pre |-> [chainSpec |-> fac.chainSpec,
                           suggestedFeeRecipient |-> fac.suggestedFeeRecipient],
                  timestamp |-> timestamp,
                  payloadWithdrawals |-> WithdrawalsOf(n),
                  prevRandao |-> Fill(32, 6 * r),
                  prevHeadRoot |-> Fill(32, 9 * h),
                  refused |-> refused,
                  ret |-> BuildPayloadAttributes(fac, timestamp, WithdrawalsOf(n),
                                                 Fill(32, 6 * r), Fill(32, 9 * h),
                                                 refused)]]
    /\ UNCHANGED <<p, out, dec, run>>

NextFactory ==
  \/ NewAttributesFactory
  \/ CallBuildPayloadAttributes

SpecFactory == Init /\ [][NextFactory]_vars

(***************************************************************************)
(* The devnet plan: run of main.star                                       *)
(*                                                                         *)
(* run is a straight-line program; each action is one of its blocks, loops *)
(* included.  log holds the calls made on the nodes, in the order made: a  *)
(* call, the node or the kind of nodes it is about, and the argument the   *)
(* plan depends on.                                                        *)
(***************************************************************************)
\* Node i of a kind ("seed", "full", "validator"), as parse_nodes_from_dict
\* gives them.
Node(kind, i) == <<kind, i>>

Nodes(kind, n) == <<>> \o [i \in 1..n |-> Node(kind, i)]

\* A call on the plan or on a launcher.
Ev(call, node, arg) == [call |-> call, node |-> node, arg |-> arg]

\* What get_enode_addr and get_peer_info give for a node.
Info(what, nodes) == <<>> \o [i \in 1..Len(nodes) |-> <<what, nodes[i]>>]

\* One call per node, with the same argument.
Each(call, nodes, arg) ==
  <<>> \o [i \in 1..Len(nodes) |-> Ev(call, nodes[i], arg)]

\* run(plan, network_configuration, node_settings, eth_json_rpc_endpoints,
\* ...), up to the start of the seed nodes: the nodes are parsed, the genesis
\* is made, the lists of addresses and peers are empty.
Run ==
  \E s \in 0..MaxNodes, f \in 0..MaxNodes, v \in 0..MaxNodes,
     e \in {<<>>, <<"nginx">>, <<"blutgang">>, <<"other">>, <<"nginx", "blutgang">>} :
    /\ run.pc = "none"
    /\ run' = [pc |-> "seed_el",
               seed_nodes |-> Nodes("seed", s),
               full_nodes |-> Nodes("full", f),
               validators |-> Nodes("validator", v),
               eth_json_rpc_endpoints |-> e,
               el_enode_addrs |-> <<>>,
               consensus_node_peering_info |-> <<>>,
               all_consensus_peering_info |-> <<>>,
               metrics_enabled_services |-> <<>>,
               log |-> <<>>]
    /\ UNCHANGED <<p, out, dec, fac>>

\* Start seed nodes, execution clients: the configs, deploy_nodes when there
\* is a config, then the enode address of each.
StartSeedNodesEL ==
  /\ run.pc = "seed_el"
  /\ run' = [run EXCEPT
       !.pc = "seed_cl",
       !.el_enode_addrs = @ \o Info("enode", run.seed_nodes),
       !.metrics_enabled_services = @ \o Info("el", run.seed_nodes),
       !.log = @ \o Each("generate_node_config", run.seed_nodes, <<"default">>)
                 \o (IF run.seed_nodes # <<>>
                     THEN <<Ev("deploy_nodes", Node("seed", 0), run.seed_nodes)>>
                     ELSE <<>>)
                 \o Each("get_enode_addr", run.seed_nodes, <<>>)]
  /\ UNCHANGED <<p, out, dec, fac>>

\* Start seed nodes, consensus clients: the configs with the peers known so
\* far, add_services, then the peer info of each.
StartSeedNodesCL ==
  /\ run.pc = "seed_cl"
  /\ run' = [run EXCEPT
       !.pc = "full_el",
       !.consensus_node_peering_info = @ \o Info("peer", run.seed_nodes),
       !.metrics_enabled_services = @ \o Info("cl", run.seed_nodes),
       !.log = @ \o Each("create_node_config", run.seed_nodes,
                         run.consensus_node_peering_info)
                 \o <<Ev("add_services", Node("seed", 0), run.seed_nodes)>>
                 \o Each("get_peer_info", run.seed_nodes, <<>>)]
  /\ UNCHANGED <<p, out, dec, fac>>

\* 5. Start full nodes, execution clients.
StartFullNodesEL ==
  /\ run.pc = "full_el"
  /\ run' = [run EXCEPT
       !.pc = "full_cl",
       !.metrics_enabled_services = @ \o Info("el", run.full_nodes),
       !.log = @ \o Each("generate_node_config", run.full_nodes,
                         run.el_enode_addrs)
                 \o (IF run.full_nodes # <<>>
                     THEN <<Ev("deploy_nodes", Node("full", 0), run.full_nodes)>>
                     ELSE <<>>)]
  /\ UNCHANGED <<p, out, dec, fac>>

\* 5b. Launch CL of the full nodes.
StartFullNodesCL ==
  /\ run.pc = "full_cl"
  /\ run' = [run EXCEPT
       !.pc = "validator_el",
       !.all_consensus_peering_info = @ \o Info("peer", run.full_nodes),
       !.metrics_enabled_services = @ \o Info("cl", run.full_nodes),
       !.log = @ \o Each("create_node_config", run.full_nodes,
                         run.consensus_node_peering_info)
                 \o (IF run.full_nodes # <<>>
                     THEN <<Ev("add_services", Node("full", 0), run.full_nodes)>>
                     ELSE <<>>)
                 \o Each("get_peer_info", run.full_nodes, <<>>)]
  /\ UNCHANGED <<p, out, dec, fac>>

\* 4. Start network validators, execution clients.
StartValidatorsEL ==
  /\ run.pc = "validator_el"
  /\ run' = [run EXCEPT
       !.pc = "validator_cl",
       !.metrics_enabled_services = @ \o Info("el", run.validators),
       !.log = @ \o Each("generate_node_config", run.validators,
                         run.el_enode_addrs)
                 \o <<Ev("deploy_nodes", Node("validator", 0), run.validators)>>]
  /\ UNCHANGED <<p, out, dec, fac>>

\* StartValidatorsCL, had the configs been given the peers of the full nodes.
StartValidatorsCLWithAllPeers ==
  /\ run.pc = "validator_cl"
  /\ run' = [run EXCEPT
       !.pc = "dial",
       !.all_consensus_peering_info = @ \o Info("peer", run.validators),
       !.metrics_enabled_services = @ \o Info("cl", run.validators),
       !.log = @ \o Each("create_node_config", run.validators,
                         run.all_consensus_peering_info)
                 \o <<Ev("add_services", Node("validator", 0), run.validators)>>
                 \o Each("get_peer_info", run.validators, <<>>)]
  /\ UNCHANGED <<p, out, dec, fac>>

\* The consensus clients of the validators.
StartValidatorsCL ==
  /\ run.pc = "validator_cl"
  /\ run' = [run EXCEPT
       !.pc = "dial",
       !.all_consensus_peering_info = @ \o Info("peer", run.validators),
       !.metrics_enabled_services = @ \o Info("cl", run.validators),
       !.log = @ \o Each("create_node_config", run.validators,
                         run.consensus_node_peering_info)
                 \o <<Ev("add_services", Node("validator", 0), run.validators)>>
                 \o Each("get_peer_info", run.validators, <<>>)]
  /\ UNCHANGED <<p, out, dec, fac>>

\* Each seed node dials the peers collected from the full nodes and the
\* validators.
DialUnsafePeers ==
  /\ run.pc = "dial"
  /\ run' = [run EXCEPT
       !.pc = "rpc",
       !.log = @ \o Each("dial_unsafe_peers", run.seed_nodes,
                         run.all_consensus_peering_info)]
  /\ UNCHANGED <<p, out, dec, fac>>

\* Get only the first rpc endpoint: the index fails on an empty list;
\* otherwise the launch its type asks for.
LaunchRPC ==
  /\ run.pc = "rpc"
  /\ run' =
       IF run.eth_json_rpc_endpoints = <<>>
       THEN [run EXCEPT !.pc = "failed"]
       ELSE [run EXCEPT
               !.pc = "additional_services",
               !.log = @ \o <<Ev(CASE run.eth_json_rpc_endpoints[1] = "nginx" ->
                                        "nginx.get_config"
                                   [] run.eth_json_rpc_endpoints[1] = "blutgang" ->
                                        "blutgang.launch_blutgang"
                                   [] OTHER -> "print",
                                 Node("rpc", 0), run.eth_json_rpc_endpoints[1])>>]
  /\ UNCHANGED <<p, out, dec, fac>>

\* 7. Start additional services.
StartAdditionalServices ==
  /\ run.pc = "additional_services"
  /\ run' = [run EXCEPT !.pc = "done"]
  /\ UNCHANGED <<p, out, dec, fac>>

NextLaunch ==
  \/ Run
  \/ StartSeedNodesEL
  \/ StartSeedNodesCL
  \/ StartFullNodesEL
  \/ StartFullNodesCL
  \/ StartValidatorsEL
  \/ StartValidatorsCL
  \/ DialUnsafePeers
  \/ LaunchRPC
  \/ StartAdditionalServices

SpecLaunch == Init /\ [][NextLaunch]_vars

(***************************************************************************)
(* The claims                                                              *)
(***************************************************************************)
\* Every capacity limit of the declaration is respected.
WithinCapacity(q) ==
  /\ Len(q.ExtraData) <= 32
  /\ Len(q.Transactions) <= MaxTxsPerPayload
  /\ \A i \in 1..Len(q.Transactions) : Len(q.Transactions[i]) <= MaxBytesPerTx
  /\ Len(q.Withdrawals.items) <= 16

\* Valid at its fork version, as C1 lists it.
ValidAtVersion(q) ==
  /\ WithinCapacity(q)
  /\ ~q.BaseFeePerGas.isNil
  /\ (q.Versionable >= Capella => ~q.Withdrawals.isNil)

C2_DualPathAgreement ==
  (/\ out.op = "HashTreeRootWith"
   /\ WithinCapacity(out.pre)
   /\ ~out.pre.BaseFeePerGas.isNil)
    => (/\ out.err = NoErr
        /\ Len(out.hh) = 1
        /\ out.root = HashTreeRoot(out.pre))

C2_Witness ==
  /\ out.op = "HashTreeRootWith"
  /\ Len(out.pre.ExtraData) = 32
  /\ Len(out.pre.Transactions) >= 2
  /\ Len(out.pre.Withdrawals.items) = 16
  /\ out.pre.Number # 0
  /\ out.err = NoErr
  /\ out.root = HashTreeRoot(out.pre)

\* C3 as stated: MarshalSSZ of a payload over a capacity limit fails and
\* returns no bytes.
C3_EncodeRefusesOverCapacity ==
  (out.op = "MarshalSSZ" /\ ~WithinCapacity(out.pre))
    => (out.err # NoErr /\ out.buf = <<>>)

\* C4 as stated: the bytes MarshalSSZ returned without error decode, at the
\* payload's fork version, without error.
C4_MarshalledDecodes ==
  dec.src = "MarshalSSZ" => dec.err = NoErr

\* The total length of the transactions.
TxBytes(txs) ==
  LET sum[i \in 0..Len(txs)] == IF i = 0 THEN 0 ELSE sum[i - 1] + Len(txs[i])
  IN sum[Len(txs)]

ExpectedSize(q) ==
  528 + Len(q.ExtraData)
      + (4 * Len(q.Transactions) + TxBytes(q.Transactions))
      + Len(q.Withdrawals.items) * 44

\* The fixed fields DefineSSZ declares, and the sum of their sizes.
FixedFields == {i \in 1..Len(DefineSSZStatic) : DefineSSZStatic[i].kind \notin OffsetKinds}

FixedFieldsSize ==
  LET width(e) == CASE e.kind = "StaticBytes" -> FieldSize[e.field]
                    [] e.kind = "Uint64" -> 8
                    [] e.kind = "Uint256" -> 32
                    [] OTHER -> 0
      sum[i \in 0..Len(DefineSSZStatic)] ==
        IF i = 0 THEN 0 ELSE sum[i - 1] + width(DefineSSZStatic[i])
  IN sum[Len(DefineSSZStatic)]

\* C5: the bytes MarshalSSZ produces are as long as SizeSSZ(false) says,
\* 528 + len(ExtraData) + (4 per transaction + the transactions' bytes)
\* + 44 per withdrawal; SizeSSZ(true) is 528, the sizes of the 14 fixed
\* fields plus 4 bytes for each of the 3 offsets.
C5_SizeAccounting ==
  /\ out.op = "MarshalSSZ" => Len(out.buf) = ExpectedSize(out.pre)
  /\ out.op = "SizeSSZ(false)" => out.size = ExpectedSize(out.pre)
  /\ out.op = "SizeSSZ(true)" =>
       (/\ out.size = 528
        /\ Cardinality(FixedFields) = 14
        /\ Len(DefineSSZStatic) - Cardinality(FixedFields) = 3
        /\ out.size = FixedFieldsSize + 3 * 4)

C5_Witness ==
  /\ out.op = "MarshalSSZ"
  /\ Len(out.pre.ExtraData) = 32
  /\ Len(out.pre.Transactions) = 2
  /\ Len(out.pre.Withdrawals.items) = 16
  /\ Len(out.buf) = 528 + 32 + (4 * 2 + 33) + 16 * 44

\* C6: ValidateAfterDecodingSSZ returns no error; it makes a nil Withdrawals
\* an empty non-nil list when the fork version is Capella or later and
\* changes Withdrawals in no other case; no other field changes; a second
\* application changes nothing.
C6_VersionGating ==
  out.op = "ValidateAfterDecodingSSZ" =>
    (/\ out.err = NoErr
     /\ (out.pre.Withdrawals.isNil /\ out.pre.Versionable >= Capella)
          => p.Withdrawals = List(<<>>)
     /\ ~(out.pre.Withdrawals.isNil /\ out.pre.Versionable >= Capella)
          => p.Withdrawals = out.pre.Withdrawals
     /\ [p EXCEPT !.Withdrawals = out.pre.Withdrawals] = out.pre
     /\ ValidateAfterDecodingSSZ(p).rec = p)

C6_Witness ==
  /\ out.op = "ValidateAfterDecodingSSZ"
  /\ out.pre.Withdrawals.isNil
  /\ out.pre.Versionable = Capella
  /\ p.Withdrawals = List(<<>>)

\* The errors of the decoder's offset validation and of a buffer that ends
\* early.
OffsetErrors ==
  {"io.ErrUnexpectedEOF", "ErrFirstOffsetMismatch", "ErrBadOffsetProgression",
   "ErrOffsetBeyondCapacity"}

\* The three offsets of a buffer go back, or one lies past the buffer's end.
BadOffsets(buf) ==
  \/ ReadOffset(buf, 2) < ReadOffset(buf, 1)
  \/ ReadOffset(buf, 3) < ReadOffset(buf, 2)
  \/ \E k \in 1..3 : ReadOffset(buf, k) > Len(buf)

\* C7: a buffer is accepted only if it holds the static part, its three
\* offsets start at 528, do not go back and lie within it, and decoding
\* consumed it to its end; a buffer shorter than 528 bytes, or with an
\* offset below its predecessor or past the end, is refused with an error of
\* the offset validation, no byte past the static part or the buffer's end
\* having been read.
C7_OffsetValidation ==
  dec.src # "none" =>
    (/\ dec.err = NoErr =>
          (/\ Len(dec.buf) >= 528
           /\ ReadOffset(dec.buf, 1) = 528
           /\ ReadOffset(dec.buf, 1) <= ReadOffset(dec.buf, 2)
           /\ ReadOffset(dec.buf, 2) <= ReadOffset(dec.buf, 3)
           /\ ReadOffset(dec.buf, 3) <= Len(dec.buf)
           /\ dec.rest = <<>>)
     /\ (Len(dec.buf) < 528 \/ BadOffsets(dec.buf)) =>
          (/\ dec.err \in OffsetErrors
           /\ Len(dec.buf) - Len(dec.rest) <= 528
           /\ Len(dec.rest) <= Len(dec.buf)))

C7_Witness ==
  /\ dec.src = "crafted"
  /\ Len(dec.buf) >= 528
  /\ ReadOffset(dec.buf, 1) = 528
  /\ ReadOffset(dec.buf, 3) < ReadOffset(dec.buf, 2)
  /\ dec.err = "ErrBadOffsetProgression"

\* C8 as stated: decode refuses a buffer whose content is over a capacity
\* limit, and it refuses the bytes of a record exactly when MarshalSSZ
\* refused to produce them.
C8_DecodeRefusesIffEncodeRefuses ==
  dec.src = "MarshalSSZ" =>
    (/\ ~WithinCapacity(p) => dec.err # NoErr
     /\ dec.err # NoErr <=> out.err # NoErr)

\* C9: ToHeader succeeds, with a header, exactly at Deneb, Deneb1, Electra
\* and Electra1; at every other fork version it returns a nil header and
\* the unknown-fork-version error.
C9_ToHeaderVersions ==
  out.op = "ToHeader" =>
    IF out.pre.Versionable \in {4, 5, 6, 7}
    THEN out.err = NoErr /\ ~out.hdr.isNil
    ELSE out.err = "unknown fork version" /\ out.hdr.isNil

C9_Witness ==
  /\ out.op = "ToHeader"
  /\ out.pre.Versionable = Capella
  /\ out.pre.Withdrawals = List(<<>>)
  /\ out.err # NoErr
  /\ out.hdr.isNil

\* The 15 fields that are not lists.
NonListFields ==
  {"ParentHash", "FeeRecipient", "StateRoot", "ReceiptsRoot", "LogsBloom",
   "Random", "Number", "GasLimit", "GasUsed", "Timestamp", "ExtraData",
   "BaseFeePerGas", "BlockHash", "BlobGasUsed", "ExcessBlobGas"}

\* C10: the header of a successful ToHeader has the payload's fork version
\* and its 15 non-list fields, the root of its Transactions and the root of
\* its Withdrawals; the payload is as it was.
C10_ToHeaderFields ==
  (out.op = "ToHeader" /\ out.err = NoErr) =>
    (/\ ~out.hdr.isNil
     /\ out.hdr.val.Versionable = out.pre.Versionable
     /\ Cardinality(NonListFields) = 15
     /\ \A f \in NonListFields : out.hdr.val[f] = out.pre[f]
     /\ out.hdr.val.TransactionsRoot =
          TransactionsHashTreeRoot(out.pre.Transactions)
     /\ out.hdr.val.WithdrawalsRoot =
          WithdrawalsHashTreeRoot(out.pre.Withdrawals.items)
     /\ p = out.pre)

C10_Witness ==
  /\ out.op = "ToHeader"
  /\ out.err = NoErr
  /\ out.pre.Versionable = Electra
  /\ out.pre.Number # 0
  /\ Len(out.pre.Transactions) >= 2
  /\ Len(out.pre.Withdrawals.items) = 16
  /\ out.hdr.val.Number = out.pre.Number
  /\ out.hdr.val.TransactionsRoot # out.hdr.val.WithdrawalsRoot

(***************************************************************************)
(* C11                                                                     *)
(***************************************************************************)
\* The calls that only read the payload.
ReadOps ==
  {"SizeSSZ(true)", "SizeSSZ(false)", "MarshalSSZ", "MarshalSSZTo",
   "HashTreeRoot", "HashTreeRootWith", "MarshalJSON"}

C13_Nullability ==
  /\ \A v \in Versions :
       /\ NewEmptyExecutionPayloadWithVersion(v).BaseFeePerGas = U256(0)
       /\ NewEmptyExecutionPayloadWithVersion(v).Withdrawals =
            IF v >= Capella THEN List(<<>>) ELSE NilList
  /\ p.Versionable >= Capella => ~p.Withdrawals.isNil
  /\ (out.op = "UnmarshalJSON" /\ out.arg.malformed) => p = out.pre
  /\ (out.op = "UnmarshalJSON" /\ ~out.arg.malformed
        /\ out.arg.members[15].kind # "value") =>
       p.Withdrawals = out.pre.Withdrawals

C13_Witness ==
  /\ p.Versionable >= Capella
  /\ out.op = "UnmarshalJSON"
  /\ out.err = NoErr
  /\ out.arg.members[15].kind = "null"
  /\ out.pre.ParentHash # NewEmptyExecutionPayloadWithVersion(0).ParentHash
  /\ p.Withdrawals = List(<<>>)

(***************************************************************************)
(* C14                                                                     *)
(***************************************************************************)
\* The fields of a sequence of declarations, in order.
FieldsOf(defs) == <<>> \o [i \in 1..Len(defs) |-> defs[i].field]

\* The offset declarations of the static pass, in order.
RECURSIVE Offsets(_)
Offsets(defs) ==
  IF defs = <<>> THEN <<>>
  ELSE (IF Head(defs).kind \in OffsetKinds THEN <<Head(defs)>> ELSE <<>>)
         \o Offsets(Tail(defs))

\* The size a content declaration stands for.
DynamicSize(q, e) ==
  CASE e.kind = "DynamicBytesContent" -> SizeDynamicBytes(FieldValue(q, e.field))
    [] e.kind = "SliceOfDynamicBytesContent" ->
         SizeSliceOfDynamicBytes(FieldValue(q, e.field))
    [] OTHER -> SizeSliceOfStaticObjects(FieldValue(q, e.field))

\* C14: one declaration order.  The static pass of DefineSSZ declares the 17
\* fields in the order of the struct, and leaf i of HashTreeRootWith is the
\* leaf of the i-th declaration; the dynamic pass and the additions of
\* SizeSSZ visit exactly ExtraData, Transactions and Withdrawals in that
\* order, each with the maximum of its offset declaration.
C14_DeclarationOrder ==
  /\ FieldsOf(DefineSSZStatic) = JSONFields
  /\ FieldsOf(DefineSSZDynamic) = <<"ExtraData", "Transactions", "Withdrawals">>
  /\ FieldsOf(DefineSSZDynamic) = FieldsOf(Offsets(DefineSSZStatic))
  /\ \A i \in 1..Len(DefineSSZDynamic) :
       /\ DefineSSZDynamic[i].maxItems = Offsets(DefineSSZStatic)[i].maxItems
       /\ DefineSSZDynamic[i].maxSize = Offsets(DefineSSZStatic)[i].maxSize
  /\ (out.op = "HashTreeRootWith" /\ out.err = NoErr) =>
       LET Holds(q, leaves) ==
             /\ \A i \in 1..17 :
                  HashFieldWith(q, Ok(<<>>), i) =
                    Ok(<<HashField(q, DefineSSZStatic[i])>>)
             /\ out.hh = <<MerkleRoot(leaves, 5)>>
             /\ q.Number # 0 =>
                  \A i, j \in 1..17 : leaves[i] = leaves[j] => i = j
             /\ SizeSSZ(q, FALSE) =
                  ExecutionPayloadStaticSize
                    + DynamicSize(q, DefineSSZDynamic[1])
                    + DynamicSize(q, DefineSSZDynamic[2])
                    + DynamicSize(q, DefineSSZDynamic[3])
       IN Holds(out.pre, HashLeaves(out.pre))

C14_Witness ==
  /\ out.op = "HashTreeRootWith"
  /\ out.err = NoErr
  /\ out.pre.Number # 0
  /\ out.pre.ExtraData # <<>>
  /\ Len(out.pre.Transactions) = 2
  /\ Len(out.pre.Withdrawals.items) = 1

(***************************************************************************)
(* C15                                                                     *)
(***************************************************************************)
\* The required keys that are absent or null in a document.
Missing(doc) == {i \in 1..14 : doc.members[i].kind # "value"}

\* The least element of a non-empty set of numbers.
Least(S) == CHOOSE i \in S : \A j \in S : i <= j

\* C15: UnmarshalJSON returns a missing-required-field error exactly when
\* the input parses and one of the 14 required keys is absent or null, and
\* the error is that of the first such key in the order parentHash ..
\* transactions; withdrawals, blobGasUsed and excessBlobGas are optional, and
\* the payload keeps its value of an optional key that is absent.
C15_RequiredAndOptional ==
  out.op = "UnmarshalJSON" =>
    LET Holds(doc) ==
          /\ (\E i \in 1..14 : out.err = MissingRequiredField[i]) <=>
               (~doc.malformed /\ Missing(doc) # {})
          /\ (~doc.malformed /\ Missing(doc) # {}) =>
               out.err = MissingRequiredField[Least(Missing(doc))]
          /\ (~doc.malformed /\ Missing(doc) = {}) =>
               /\ out.err = NoErr
               /\ \A i \in 15..17 :
                    p[JSONFields[i]] =
                      IF doc.members[i].kind # "value"
                      THEN out.pre[JSONFields[i]]
                      ELSE IF i = 15 THEN List(doc.members[i].val)
                      ELSE doc.members[i].val
          /\ doc.malformed => out.err \notin {NoErr} \cup
                                {MissingRequiredField[i] : i \in 1..14}
    IN Holds(out.arg)

C15_Witness ==
  /\ out.op = "UnmarshalJSON"
  /\ ~out.arg.malformed
  /\ out.arg.members[3].kind = "absent"
  /\ out.arg.members[4].kind = "null"
  /\ out.err = MissingRequiredField[3]

(***************************************************************************)
(* C16                                                                     *)
(***************************************************************************)
\* What UnmarshalJSON assigns to the field of key i from a document.
AssignedValue(doc, i) ==
  CASE JSONFields[i] = "BaseFeePerGas" -> U256(doc.members[i].val)
    [] JSONFields[i] = "Withdrawals" -> List(doc.members[i].val)
    [] OTHER -> doc.members[i].val

\* C16 as stated: a failed UnmarshalJSON leaves the receiver entirely
\* unchanged only when the parsing of the JSON itself failed.
C16_UnchangedOnlyOnParseFailure ==
  (out.op = "UnmarshalJSON" /\ out.err # NoErr /\ p = out.pre) =>
    out.arg.malformed

\* C16: UnmarshalJSON is not atomic on failure.  When required key k is the
\* first one missing, the fields of keys 1..k-1 hold the input's values and
\* the fields from k on hold what they held before; the receiver is entirely
\* unchanged when the parsing fails, and also when the first key is the one
\* missing.
C16_NotAtomic ==
  out.op = "UnmarshalJSON" =>
    LET Holds(doc) ==
          /\ doc.malformed => (out.err # NoErr /\ p = out.pre)
          /\ (~doc.malformed /\ Missing(doc) # {}) =>
               /\ out.err = MissingRequiredField[Least(Missing(doc))]
               /\ \A i \in 1..17 :
                    p[JSONFields[i]] =
                      IF i < Least(Missing(doc)) THEN AssignedValue(doc, i)
                      ELSE out.pre[JSONFields[i]]
               /\ p.Versionable = out.pre.Versionable
               /\ Least(Missing(doc)) = 1 => p = out.pre
    IN Holds(out.arg)

C16_Witness ==
  /\ out.op = "UnmarshalJSON"
  /\ out.err = MissingRequiredField[5]
  /\ p.ReceiptsRoot = AssignedValue(out.arg, 4)
  /\ p.ReceiptsRoot # out.pre.ReceiptsRoot
  /\ p.LogsBloom = out.pre.LogsBloom
  /\ p.LogsBloom # JSONSource.LogsBloom
  /\ p # out.pre

(***************************************************************************)
(* C17                                                                     *)
(***************************************************************************)
\* The number of the first field over its limit, 0 when there is none.
Offending(q) ==
  IF Len(q.ExtraData) > 32 THEN 11
  ELSE IF \/ Len(q.Transactions) > 1048576
          \/ \E i \in 1..Len(q.Transactions) : Len(q.Transactions[i]) > 1073741824
       THEN 14
  ELSE IF Len(q.Withdrawals.items) > 16 THEN 15
  ELSE 0

C18_MarshalSSZToAppends ==
  out.op = "MarshalSSZTo" =>
    LET Holds(dst, bz) ==
          /\ out.err = bz.err
          /\ bz.err = NoErr =>
               /\ ~out.isNil
               /\ Len(out.buf) = Len(dst) + Len(bz.buf)
               /\ SubSeq(out.buf, 1, Len(dst)) = dst
               /\ SubSeq(out.buf, Len(dst) + 1, Len(out.buf)) = bz.buf
          /\ bz.err # NoErr => (out.isNil /\ out.buf = <<>>)
          /\ p = out.pre
    IN Holds(out.arg, MarshalSSZ(out.pre))

C18_Witness ==
  /\ out.op = "MarshalSSZTo"
  /\ out.arg = <<170, 187>>
  /\ out.err = NoErr
  /\ out.pre.Number # 0
  /\ Len(out.pre.Transactions) = 2
  /\ Len(out.buf) > ExecutionPayloadStaticSize + 2
  /\ out.buf[1] = 170

(***************************************************************************)
(* C19                                                                     *)
(***************************************************************************)
\* C19: BuildPayloadAttributes computes no fork version itself.  The version
\* given to NewPayloadAttributes is the chain spec's
\* ActiveForkVersionForTimestamp of the timestamp that is also passed on;
\* prevRandao, the withdrawals and prevHeadRoot are passed on as they are;
\* the fee recipient is the one the Factory was made with, and no call
\* changes the Factory; what NewPayloadAttributes returns is returned as it
\* is.
C19_BuildPayloadAttributes ==
  (fac.made /\ fac.call.op = "BuildPayloadAttributes") =>
    LET Holds(c) ==
          /\ fac.chainSpec = c.pre.chainSpec
          /\ fac.suggestedFeeRecipient = c.pre.suggestedFeeRecipient
          /\ c.ret =
               NewPayloadAttributes(
                 ActiveForkVersionForTimestamp(c.pre.chainSpec, c.timestamp),
                 c.timestamp, c.prevRandao, c.pre.suggestedFeeRecipient,
                 c.payloadWithdrawals, c.prevHeadRoot, c.refused)
          /\ c.refused => (c.ret.isNil /\ c.ret.err # NoErr)
          /\ ~c.refused =>
               /\ c.ret.err = NoErr
               /\ c.ret.val.Versionable =
                    ActiveForkVersionForTimestamp(fac.chainSpec,
                                                  c.ret.val.Timestamp)
               /\ c.ret.val.Timestamp = c.timestamp
               /\ c.ret.val.PrevRandao = c.prevRandao
               /\ c.ret.val.Withdrawals = c.payloadWithdrawals
               /\ c.ret.val.ParentBeaconBlockRoot = c.prevHeadRoot
               /\ c.ret.val.SuggestedFeeRecipient = fac.suggestedFeeRecipient
    IN Holds(fac.call)

C19_Witness ==
  /\ fac.made
  /\ fac.call.op = "BuildPayloadAttributes"
  /\ fac.chainSpec = [deneb1 |-> 1, electra |-> 3]
  /\ fac.suggestedFeeRecipient = Fill(20, 2)
  /\ fac.call.timestamp = 2
  /\ ~fac.call.refused
  /\ fac.call.ret.val.Versionable = Deneb1
  /\ fac.call.ret.val.Timestamp = 2
  /\ fac.call.ret.val.Withdrawals = WithdrawalsOf(1)
  /\ fac.call.ret.val.SuggestedFeeRecipient = Fill(20, 2)

(***************************************************************************)
(* C20                                                                     *)
(***************************************************************************)
\* The places in the log of a call on nodes of the given kinds.
At(calls, kinds) ==
  {i \in 1..Len(run.log) :
     run.log[i].call \in calls /\ run.log[i].node[1] \in kinds}

Before(A, B) == \A i \in A, j \in B : i < j

\* The calls that make a node's configs, that start nodes, and that follow a
\* start.
ConfigCalls == {"generate_node_config", "create_node_config"}

StartCalls == {"deploy_nodes", "add_services"}

LaunchCalls == StartCalls \cup {"get_enode_addr", "get_peer_info"}

\* The nodes of a kind have been started: the execution clients when there
\* is one (for validators, whether there is one or not), then the consensus
\* clients, all of them at once.
Started(kind, nodes, always) ==
  /\ (nodes # <<>> \/ always) =>
       /\ At({"deploy_nodes"}, {kind}) # {}
       /\ At({"add_services"}, {kind}) # {}
  /\ \A i \in At(StartCalls, {kind}) : run.log[i].arg = nodes
  /\ Before(At({"deploy_nodes"}, {kind}), At({"add_services"}, {kind}))

=============================================================================
